---- MODULE Spec2Model ----
(***************************************************************************)
(* A model of instagram_downloader.py: one command line invocation, from   *)
(* the parsed arguments to the process's exit status.  Strings are         *)
(* sequences of one-character strings; the Instaloader library, the file   *)
(* system and the terminal are the environment, whose outcomes the actions *)
(* choose nondeterministically.                                            *)
(***************************************************************************)
EXTENDS Integers, Sequences, FiniteSets, TLC

\* ---------------------------------------------------------------- bounds
MaxPosts == 3  \* longest profile listing explored
MaxCount == 2  \* largest -c/--count explored
MaxLines == 2  \* longest shortcode file explored
MaxBare == 2   \* longest bare shortcode given as the URL

\* ------------------------------------------------------- values and text
\* Python's None, as an argument value (distinct from every string)
NONE == <<"<None>">>

\* a value's truth as `if x:` / `not x` sees it: None and "" are false
Truthy(x) == x /= NONE /\ x /= <<>>

Lower == {"a","b","c","d","e","f","g","h","i","j","k","l","m",
          "n","o","p","q","r","s","t","u","v","w","x","y","z"}
Upper == {"A","B","C","D","E","F","G","H","I","J","K","L","M",
          "N","O","P","Q","R","S","T","U","V","W","X","Y","Z"}
Digits == {"0","1","2","3","4","5","6","7","8","9"}

\* the character class [A-Za-z0-9_-] of the pattern
IdentChars == Lower \cup Upper \cup Digits \cup {"_", "-"}

\* the characters str.strip() removes
Whitespace == {" ", "\t", "\n"}

RECURSIVE LStrip(_)
LStrip(s) == IF s /= <<>> /\ Head(s) \in Whitespace THEN LStrip(Tail(s)) ELSE s

RECURSIVE RStrip(_)
RStrip(s) ==
    IF s /= <<>> /\ s[Len(s)] \in Whitespace
    THEN RStrip(SubSeq(s, 1, Len(s) - 1))
    ELSE s

\* str.strip()
Strip(s) == RStrip(LStrip(s))

\* the literal `lit` occurs in s at position i
LitAt(s, i, lit) ==
    /\ i >= 1
    /\ i + Len(lit) - 1 <= Len(s)
    /\ SubSeq(s, i, i + Len(lit) - 1) = lit

HOST == <<"i","n","s","t","a","g","r","a","m",".","c","o","m","/">>
WWW == <<"w","w","w",".">>
HTTP == <<"h","t","t","p",":","/","/">>
HTTPS == <<"h","t","t","p","s",":","/","/">>
SegP == <<"p","/">>
SegReel == <<"r","e","e","l","/">>
SegTv == <<"t","v","/">>

\* the end of the longest run of identifier characters starting at i
\* (i - 1 when there is none): the greedy [A-Za-z0-9_-]+
RECURSIVE IdentEnd(_, _)
IdentEnd(s, i) ==
    IF i <= Len(s) /\ s[i] \in IdentChars THEN IdentEnd(s, i + 1) ELSE i - 1

\* positions right after `(?:https?://)?` tried from position i
AfterScheme(s, i) ==
    {i} \cup (IF LitAt(s, i, HTTPS) THEN {i + Len(HTTPS)} ELSE {})
        \cup (IF LitAt(s, i, HTTP) THEN {i + Len(HTTP)} ELSE {})

\* positions right after `(?:www\.)?` tried from position j
AfterWww(s, j) == {j} \cup (IF LitAt(s, j, WWW) THEN {j + Len(WWW)} ELSE {})

\* positions right after `instagram\.com/(?:p|reel|tv)/` matched at k
AfterSegment(s, k) ==
    IF ~LitAt(s, k, HOST) THEN {}
    ELSE LET m == k + Len(HOST) IN
         (IF LitAt(s, m, SegP) THEN {m + Len(SegP)} ELSE {})
         \cup (IF LitAt(s, m, SegReel) THEN {m + Len(SegReel)} ELSE {})
         \cup (IF LitAt(s, m, SegTv) THEN {m + Len(SegTv)} ELSE {})

\* the starts of group 1 over all ways the pattern matches from position i
GroupStarts(s, i) ==
    { g \in 1..Len(s) :
        /\ \E j \in AfterScheme(s, i) : \E k \in AfterWww(s, j) :
              g \in AfterSegment(s, k)
        /\ IdentEnd(s, g) >= g }

\* re.search: the leftmost position from which the pattern matches
MatchStarts(s) == { i \in 1..Len(s) : GroupStarts(s, i) /= {} }

Min(S) == CHOOSE x \in S : \A y \in S : x <= y

\* extract_shortcode_from_url that hands back an input made of identifier
\* characters only
ExtractOrPassThrough(url) ==
    LET s == Strip(url) IN
    IF s /= <<>> /\ \A k \in 1..Len(s) : s[k] \in IdentChars THEN s
    ELSE IF MatchStarts(s) = {} THEN NONE
    ELSE LET i == Min(MatchStarts(s))
             g == Min(GroupStarts(s, i))
         IN SubSeq(s, g, IdentEnd(s, g))

\* extract_shortcode_from_url: group 1 of the leftmost match, or None
extract_shortcode_from_url(url) ==
    LET s == Strip(url) IN
    IF MatchStarts(s) = {} THEN NONE
    ELSE LET i == Min(MatchStarts(s))
             g == Min(GroupStarts(s, i))
         IN SubSeq(s, g, IdentEnd(s, g))

\* ------------------------------------------------------------ the inputs
\* "instagram.com/p/Ab/"
UrlPlain == HOST \o SegP \o <<"A","b","/">>
\* " https://www.instagram.com/reel/x_?a\n"
UrlFull == <<" ">> \o HTTPS \o WWW \o HOST \o SegReel \o <<"x","_","?","a","\n">>
\* "example.com/p/Ab"
UrlWrongHost == <<"e","x","a","m","p","l","e",".","c","o","m","/">> \o SegP \o <<"A","b">>
\* "instagram.com/x/Ab"
UrlNoSegment == HOST \o <<"x","/","A","b">>
\* "xinstagram.com/tv/Q"
UrlHostSuffix == <<"x">> \o HOST \o SegTv \o <<"Q">>
\* "Ab-1", a bare shortcode given as the URL
UrlBare == <<"A","b","-","1">>

\* the lines a shortcode file is made of: "", " ", "a", " b\n", "c d"
FileLines == {<<>>, <<" ">>, <<"a">>, <<" ","b","\n">>, <<"c"," ","d">>}

RECURSIVE SeqsUpTo(_, _)
SeqsUpTo(S, n) ==
    IF n = 0 THEN {<<>>}
    ELSE LET shorter == SeqsUpTo(S, n - 1) IN
         shorter \cup { Append(q, x) : q \in shorter, x \in S }

\* the bare shortcodes given as the URL: the words of up to MaxBare
\* characters over a few identifier characters
BareInputs == SeqsUpTo({"p", "Z", "7", "-"}, MaxBare) \ {<<>>}

URLInputs ==
    {UrlPlain, UrlFull, UrlWrongHost, UrlNoSegment, UrlHostSuffix, UrlBare, <<>>}
    \cup BareInputs

\* the shortcode of the i-th post of a profile listing
PostDigit == <<"1","2","3","4","5","6","7","8","9">>
PostCode(i) == <<"P", PostDigit[i]>>

\* profile.get_posts() of a profile with m posts, newest first
Listing(m) == [i \in 1..m |-> PostCode(i)]

\* ModeOf with the target profile tested before the other arguments
ModeOfTargetFirst(a) ==
    IF Truthy(a.target) THEN "profile"
    ELSE IF Truthy(a.shortcodes_file) THEN "file"
    ELSE IF Truthy(a.post_url) THEN "url"
    ELSE IF Truthy(a.shortcode) THEN "shortcode"
    ELSE "none"

\* the branch main takes for the arguments a: its if/elif chain
ModeOf(a) ==
    IF Truthy(a.shortcodes_file) THEN "file"
    ELSE IF Truthy(a.post_url) THEN "url"
    ELSE IF Truthy(a.shortcode) THEN "shortcode"
    ELSE IF Truthy(a.target) THEN "profile"
    ELSE "none"

\* the parsed arguments (setup_argument_parser, parse_args); a count other
\* than the default is explored with the profile branch, which alone reads
\* it, and the URLs other than the plain one without a shortcode file
Args ==
    { a \in [username : {NONE, <<>>, <<"u">>},
             target : {NONE, <<"t">>},
             count : -1..MaxCount,
             directory : {<<"d","o","w","n","l","o","a","d","s">>, <<"o">>},
             shortcode : {NONE, <<"S","1">>},
             post_url : {NONE} \cup URLInputs,
             shortcodes_file : {NONE, <<"f">>}] :
        /\ a.count /= 0 => ModeOf(a) = "profile"
        /\ Truthy(a.shortcodes_file) => a.post_url \in {NONE, UrlPlain} }

\* Instaloader's default filename_pattern
DefaultPattern == <<"{date_utc}_UTC">>

\* ------------------------------------------------------------- the state
VARIABLES
    args,              \* the parsed command line
    pc,                \* where the process is
    exit,              \* the exit status, -1 while the process runs
    ending,            \* why the process ended
    session,           \* the Instaloader instance: "none", "anonymous", "logged_in"
    logins,            \* calls of L.login
    lookups,           \* calls of Profile.from_username
    fetches,           \* calls of Post.from_shortcode
    filename_pattern,  \* loader.filename_pattern
    orig_pattern,      \* the local orig_pattern
    file_lines,        \* the lines of the shortcode file, once it is read
    shortcodes,        \* the list read from the shortcode file
    idx,               \* the position of the file loop in shortcodes
    listing,           \* the posts the profile's listing holds
    pulled,            \* elements the loop has taken from the listing
    post,              \* the shortcode of the item being processed
    downloaded,        \* the local counter of download_profile_posts
    attempts,          \* shortcodes whose processing was started, in order
    failed,            \* positions in attempts whose processing failed
    calls,             \* calls of loader.download_post: target and pattern
    out                \* kinds of lines printed

vars == <<args, pc, exit, ending, session, logins, lookups, fetches,
          filename_pattern, orig_pattern, file_lines, shortcodes, idx,
          listing, pulled, post, downloaded, attempts, failed, calls, out>>

\* the variables of the session
sessionVars == <<session, logins>>
\* the variables of the loader's pattern
patternVars == <<filename_pattern, orig_pattern>>
\* the variables of the work items
workVars == <<lookups, fetches, shortcodes, idx, listing, pulled, post,
              downloaded, attempts, failed, calls>>

\* the branch main takes
Mode == ModeOf(args)

Init ==
    /\ args \in Args
    /\ pc = "main"
    /\ exit = -1
    /\ ending = "running"
    /\ session = "none"
    /\ logins = 0
    /\ lookups = 0
    /\ fetches = 0
    /\ filename_pattern = DefaultPattern
    /\ orig_pattern = NONE
    /\ file_lines = <<>>
    /\ shortcodes = <<>>
    /\ idx = 1
    /\ listing = <<>>
    /\ pulled = 0
    /\ post = NONE
    /\ downloaded = 0
    /\ attempts = <<>>
    /\ failed = {}
    /\ calls = <<>>
    /\ out = {}

\* the process ends with the given status
Exit(status, why) ==
    /\ pc' = "done"
    /\ exit' = status
    /\ ending' = why

\* ------------------------------------------------------------------ main
\* parser.error: nothing to download was named
MainUsageError ==
    /\ pc = "main"
    /\ ~Truthy(args.shortcodes_file)
    /\ ~(Truthy(args.target) \/ Truthy(args.shortcode) \/ Truthy(args.post_url))
    /\ Exit(2, "usage")
    /\ out' = out \cup {"usage"}
    /\ UNCHANGED <<args, file_lines, sessionVars, patternVars, workVars>>

\* MainCreate without the check of line 142
MainCreateUnchecked ==
    /\ pc = "main"
    /\ pc' = "create_instance"
    /\ UNCHANGED <<args, file_lines, exit, ending, sessionVars, patternVars,
                   workVars, out>>

\* main goes on to create_instance, in the file branch or after the check
MainCreate ==
    /\ pc = "main"
    /\ \/ Truthy(args.shortcodes_file)
       \/ Truthy(args.target) \/ Truthy(args.shortcode) \/ Truthy(args.post_url)
    /\ pc' = "create_instance"
    /\ UNCHANGED <<args, file_lines, exit, ending, sessionVars, patternVars,
                   workVars, out>>

\* ------------------------------------------------------- create_instance
\* no username: the instance is returned without a login
CreateAnonymous ==
    /\ pc = "create_instance"
    /\ ~Truthy(args.username)
    /\ session' = "anonymous"
    /\ pc' = "dispatch"
    /\ UNCHANGED <<args, file_lines, exit, ending, logins, patternVars,
                   workVars, out>>

\* a username: the instance is built and getpass asks for the password
Prompt ==
    /\ pc = "create_instance"
    /\ Truthy(args.username)
    /\ session' = "anonymous"
    /\ pc' = "login"
    /\ out' = out \cup {"prompt"}
    /\ UNCHANGED <<args, file_lines, exit, ending, logins, patternVars,
                   workVars>>

\* L.login returns
LoginOK ==
    /\ pc = "login"
    /\ logins' = logins + 1
    /\ session' = "logged_in"
    /\ pc' = "dispatch"
    /\ out' = out \cup {"logged_in"}
    /\ UNCHANGED <<args, file_lines, exit, ending, patternVars, workVars>>

\* what L.login can raise: the two exceptions create_instance handles, and
\* any other, which reaches the interpreter
LoginFailures == {"bad_credentials", "connection", "login_error"}

\* LoginFail with handlers that print and go on without a login
LoginFailContinues ==
    /\ pc = "login"
    /\ \E why \in LoginFailures : out' = out \cup {why}
    /\ logins' = logins + 1
    /\ pc' = "dispatch"
    /\ UNCHANGED <<args, file_lines, exit, ending, session, patternVars,
                   workVars>>

\* L.login raises
LoginFail ==
    /\ pc = "login"
    /\ \E why \in LoginFailures :
          /\ Exit(1, why)
          /\ out' = out \cup {IF why = "login_error" THEN "traceback" ELSE why}
    /\ logins' = logins + 1
    /\ UNCHANGED <<args, file_lines, session, patternVars, workVars>>

\* --------------------------------------------- download_post_by_shortcode
\* main calls download_post_by_shortcode(loader, code, ...)
CallDownloadPost(code) ==
    /\ post' = code
    /\ attempts' = Append(attempts, code)
    /\ pc' = "post_fetch"

\* download_post_by_shortcode returns: the file loop goes on, main ends
PostReturn ==
    IF Mode = "file"
    THEN /\ idx' = idx + 1
         /\ pc' = "file_loop"
         /\ UNCHANGED <<exit, ending>>
    ELSE /\ Exit(0, "finished")
         /\ UNCHANGED idx

\* Post.from_shortcode returns the post
PostFetchOK ==
    /\ pc = "post_fetch"
    /\ fetches' = fetches + 1
    /\ pc' = "post_begin"
    /\ out' = out \cup {"downloading"}
    /\ UNCHANGED <<args, file_lines, exit, ending, sessionVars, patternVars,
                   lookups,
                   shortcodes, idx, listing, pulled, post, downloaded,
                   attempts, failed, calls>>

\* Post.from_shortcode raises BadResponseException or another Exception:
\* the outer handlers print and return False
PostFetchFail ==
    /\ pc = "post_fetch"
    /\ fetches' = fetches + 1
    /\ failed' = failed \cup {Len(attempts)}
    /\ \E why \in {"bad_response", "error"} : out' = out \cup {"downloading", why}
    /\ PostReturn
    /\ UNCHANGED <<args, file_lines, sessionVars, patternVars, lookups,
                   shortcodes,
                   listing, pulled, post, downloaded, attempts, calls>>

\* reading the post's owner and date raises before the pattern is set:
\* the inner handler prints and returns False
PostMetaFail ==
    /\ pc = "post_begin"
    /\ failed' = failed \cup {Len(attempts)}
    /\ out' = out \cup {"item_error"}
    /\ PostReturn
    /\ UNCHANGED <<args, file_lines, sessionVars, patternVars, lookups, fetches,
                   shortcodes, listing, pulled, post, downloaded, attempts,
                   calls>>

\* PostBegin that keeps the loader's pattern and downloads into save_dir
PostBeginInDirectory ==
    /\ pc = "post_begin"
    /\ orig_pattern' = filename_pattern
    /\ calls' = Append(calls, [target |-> args.directory,
                               pattern |-> filename_pattern, code |-> post])
    /\ pc' = "post_downloading"
    /\ UNCHANGED <<args, file_lines, exit, ending, sessionVars, lookups,
                   fetches,
                   shortcodes, idx, listing, pulled, post, downloaded,
                   attempts, failed, out, filename_pattern>>

\* the pattern is saved and set to the shortcode, loader.download_post is
\* called with the shortcode as target
PostBegin ==
    /\ pc = "post_begin"
    /\ orig_pattern' = filename_pattern
    /\ filename_pattern' = post
    /\ calls' = Append(calls, [target |-> post, pattern |-> post, code |-> post])
    /\ pc' = "post_downloading"
    /\ UNCHANGED <<args, file_lines, exit, ending, sessionVars, lookups,
                   fetches,
                   shortcodes, idx, listing, pulled, post, downloaded,
                   attempts, failed, out>>

\* loader.download_post returns: the pattern is put back, True is returned
PostDownloadOK ==
    /\ pc = "post_downloading"
    /\ filename_pattern' = orig_pattern
    /\ out' = out \cup {"item_success"}
    /\ PostReturn
    /\ UNCHANGED <<args, file_lines, sessionVars, orig_pattern, lookups,
                   fetches,
                   shortcodes, listing, pulled, post, downloaded, attempts,
                   failed, calls>>

\* PostDownloadFail with a handler that ends the process with status 1
PostDownloadFailExits ==
    /\ pc = "post_downloading"
    /\ failed' = failed \cup {Len(attempts)}
    /\ out' = out \cup {"item_error"}
    /\ Exit(1, "item_error")
    /\ UNCHANGED <<args, file_lines, sessionVars, patternVars, lookups, fetches,
                   shortcodes, idx, listing, pulled, post, downloaded,
                   attempts, calls>>

\* loader.download_post raises: the inner handler prints and returns False
PostDownloadFail ==
    /\ pc = "post_downloading"
    /\ failed' = failed \cup {Len(attempts)}
    /\ out' = out \cup {"item_error"}
    /\ PostReturn
    /\ UNCHANGED <<args, file_lines, sessionVars, patternVars, lookups, fetches,
                   shortcodes, listing, pulled, post, downloaded, attempts,
                   calls>>

\* --------------------------------------------------- main, after the login
\* the URL branch: a shortcode is extracted and downloaded
UrlDownload ==
    /\ pc = "dispatch"
    /\ Mode = "url"
    /\ Truthy(extract_shortcode_from_url(args.post_url))
    /\ CallDownloadPost(extract_shortcode_from_url(args.post_url))
    /\ UNCHANGED <<args, file_lines, exit, ending, sessionVars, patternVars,
                   lookups,
                   fetches, shortcodes, idx, listing, pulled, downloaded,
                   failed, calls, out>>

\* UrlNoShortcode that prints and lets main return
UrlNoShortcodeReturns ==
    /\ pc = "dispatch"
    /\ Mode = "url"
    /\ ~Truthy(extract_shortcode_from_url(args.post_url))
    /\ Exit(0, "url_unresolved")
    /\ out' = out \cup {"url_unresolved"}
    /\ UNCHANGED <<args, file_lines, sessionVars, patternVars, workVars>>

\* the URL branch: no shortcode is extracted, sys.exit(1)
UrlNoShortcode ==
    /\ pc = "dispatch"
    /\ Mode = "url"
    /\ ~Truthy(extract_shortcode_from_url(args.post_url))
    /\ Exit(1, "url_unresolved")
    /\ out' = out \cup {"url_unresolved"}
    /\ UNCHANGED <<args, file_lines, sessionVars, patternVars, workVars>>

\* the shortcode branch
ShortcodeDownload ==
    /\ pc = "dispatch"
    /\ Mode = "shortcode"
    /\ CallDownloadPost(args.shortcode)
    /\ UNCHANGED <<args, file_lines, exit, ending, sessionVars, patternVars,
                   lookups,
                   fetches, shortcodes, idx, listing, pulled, downloaded,
                   failed, calls, out>>

\* ------------------------------------------ download_shortcodes_from_file
\* FileNotFound that ends the process with sys.exit(1)
FileNotFoundExits ==
    /\ pc = "dispatch"
    /\ Mode = "file"
    /\ Exit(1, "file_not_found")
    /\ out' = out \cup {"file_not_found"}
    /\ UNCHANGED <<args, file_lines, sessionVars, patternVars, workVars>>

\* the path does not exist: a line is printed and the function returns
FileNotFound ==
    /\ pc = "dispatch"
    /\ Mode = "file"
    /\ Exit(0, "file_not_found")
    /\ out' = out \cup {"file_not_found"}
    /\ UNCHANGED <<args, file_lines, sessionVars, patternVars, workVars>>

\* the path exists and open or the read raises (a directory, no permission,
\* bytes that are not UTF-8): nothing handles it
FileOpenError ==
    /\ pc = "dispatch"
    /\ Mode = "file"
    /\ Exit(1, "file_error")
    /\ out' = out \cup {"traceback"}
    /\ UNCHANGED <<args, file_lines, sessionVars, patternVars, workVars>>

RECURSIVE NonBlankUnstripped(_)
\* NonBlankStripped that keeps the lines as they are: [line for line in f
\* if line.strip()]
NonBlankUnstripped(lines) ==
    IF lines = <<>> THEN <<>>
    ELSE IF Strip(Head(lines)) /= <<>>
         THEN <<Head(lines)>> \o NonBlankUnstripped(Tail(lines))
         ELSE NonBlankUnstripped(Tail(lines))

RECURSIVE NonBlankStripped(_)
\* [line.strip() for line in f if line.strip()]
NonBlankStripped(lines) ==
    IF lines = <<>> THEN <<>>
    ELSE IF Strip(Head(lines)) /= <<>>
         THEN <<Strip(Head(lines))>> \o NonBlankStripped(Tail(lines))
         ELSE NonBlankStripped(Tail(lines))

\* the file is read into the list of shortcodes
FileRead ==
    /\ pc = "dispatch"
    /\ Mode = "file"
    /\ file_lines' \in SeqsUpTo(FileLines, MaxLines)
    /\ shortcodes' = NonBlankStripped(file_lines')
    /\ idx' = 1
    /\ pc' = "file_loop"
    /\ out' = out \cup {"found"}
    /\ UNCHANGED <<args, exit, ending, sessionVars, patternVars, lookups,
                   fetches, listing, pulled, post, downloaded, attempts,
                   failed, calls>>

\* the loop over the shortcodes takes the next one
FileNext ==
    /\ pc = "file_loop"
    /\ idx <= Len(shortcodes)
    /\ CallDownloadPost(shortcodes[idx])
    /\ UNCHANGED <<args, file_lines, exit, ending, sessionVars, patternVars,
                   lookups,
                   fetches, shortcodes, idx, listing, pulled, downloaded,
                   failed, calls, out>>

\* the loop is over: the function and main return
FileDone ==
    /\ pc = "file_loop"
    /\ idx > Len(shortcodes)
    /\ Exit(0, "finished")
    /\ out' = out \cup {"all_processed"}
    /\ UNCHANGED <<args, file_lines, sessionVars, patternVars, workVars>>

\* ------------------------------------------------- download_profile_posts
\* Profile.from_username and profile.get_posts return; the listing is lazy
ProfileLookupOK ==
    /\ pc = "dispatch"
    /\ Mode = "profile"
    /\ lookups' = lookups + 1
    /\ \E m \in 0..MaxPosts : listing' = Listing(m)
    /\ pulled' = 0
    /\ downloaded' = 0
    /\ pc' = "loop_next"
    /\ out' = out \cup {"profile_downloading"}
    /\ UNCHANGED <<args, file_lines, exit, ending, sessionVars, patternVars,
                   fetches,
                   shortcodes, idx, post, attempts, failed, calls>>

\* ProfileNotExists that prints and lets main return
ProfileNotExistsReturns ==
    /\ pc = "dispatch"
    /\ Mode = "profile"
    /\ lookups' = lookups + 1
    /\ Exit(0, "profile_not_found")
    /\ out' = out \cup {"profile_not_found"}
    /\ UNCHANGED <<args, file_lines, sessionVars, patternVars, fetches,
                   shortcodes, idx,
                   listing, pulled, post, downloaded, attempts, failed, calls>>

\* Profile.from_username raises ProfileNotExistsException: sys.exit(1)
ProfileNotExists ==
    /\ pc = "dispatch"
    /\ Mode = "profile"
    /\ lookups' = lookups + 1
    /\ Exit(1, "profile_not_found")
    /\ out' = out \cup {"profile_not_found"}
    /\ UNCHANGED <<args, file_lines, sessionVars, patternVars, fetches,
                   shortcodes, idx,
                   listing, pulled, post, downloaded, attempts, failed, calls>>

\* Profile.from_username raises another Exception: sys.exit(1)
ProfileLookupError ==
    /\ pc = "dispatch"
    /\ Mode = "profile"
    /\ lookups' = lookups + 1
    /\ Exit(1, "profile_error")
    /\ out' = out \cup {"error"}
    /\ UNCHANGED <<args, file_lines, sessionVars, patternVars, fetches,
                   shortcodes, idx,
                   listing, pulled, post, downloaded, attempts, failed, calls>>

\* `for post in posts`: the iterator hands out the next post
ProfilePull ==
    /\ pc = "loop_next"
    /\ pulled < Len(listing)
    /\ pulled' = pulled + 1
    /\ post' = listing[pulled + 1]
    /\ pc' = "loop_check"
    /\ UNCHANGED <<args, file_lines, exit, ending, sessionVars, patternVars,
                   lookups,
                   fetches, shortcodes, idx, listing, downloaded, attempts,
                   failed, calls, out>>

\* `for post in posts`: the iterator is exhausted, the count is printed
ProfileExhausted ==
    /\ pc = "loop_next"
    /\ pulled = Len(listing)
    /\ Exit(0, "finished")
    /\ out' = out \cup {"profile_summary"}
    /\ UNCHANGED <<args, file_lines, sessionVars, patternVars, workVars>>

\* ListingError taken as the end of the listing: the count is printed and
\* main returns
ListingErrorEndsLoop ==
    /\ pc = "loop_next"
    /\ Exit(0, "listing_error")
    /\ out' = out \cup {"error", "profile_summary"}
    /\ UNCHANGED <<args, file_lines, sessionVars, patternVars, workVars>>

\* `for post in posts`: the iterator raises while it fetches: the outer
\* handler prints and sys.exit(1)
ListingError ==
    /\ pc = "loop_next"
    /\ Exit(1, "listing_error")
    /\ out' = out \cup {"error"}
    /\ UNCHANGED <<args, file_lines, sessionVars, patternVars, workVars>>

\* CapReached counting the items attempted instead of those downloaded
CapReachedByAttempts == args.count > 0 /\ Len(attempts) >= args.count

\* CapReached with > for >=
CapReachedOffByOne == args.count > 0 /\ downloaded > args.count

\* CapReached without `count > 0`
CapReachedUnguarded == downloaded >= args.count

\* `count > 0 and downloaded >= count`
CapReached == args.count > 0 /\ downloaded >= args.count

\* the cap is reached: break, the count is printed
ProfileBreak ==
    /\ pc = "loop_check"
    /\ CapReached
    /\ Exit(0, "finished")
    /\ out' = out \cup {"profile_summary"}
    /\ UNCHANGED <<args, file_lines, sessionVars, patternVars, workVars>>

\* the cap is not reached: the pattern is saved and set to the shortcode,
\* loader.download_post is called with the shortcode as target
ProfileItemBegin ==
    /\ pc = "loop_check"
    /\ ~CapReached
    /\ attempts' = Append(attempts, post)
    /\ orig_pattern' = filename_pattern
    /\ filename_pattern' = post
    /\ calls' = Append(calls, [target |-> post, pattern |-> post, code |-> post])
    /\ pc' = "item_downloading"
    /\ out' = out \cup {"downloading"}
    /\ UNCHANGED <<args, file_lines, exit, ending, sessionVars, lookups,
                   fetches,
                   shortcodes, idx, listing, pulled, post, downloaded, failed>>

\* the cap is not reached and reading the post's date raises before the
\* pattern is set: the inner handler prints and the loop continues
ProfileMetaFail ==
    /\ pc = "loop_check"
    /\ ~CapReached
    /\ attempts' = Append(attempts, post)
    /\ failed' = failed \cup {Len(attempts) + 1}
    /\ pc' = "loop_next"
    /\ out' = out \cup {"item_error"}
    /\ UNCHANGED <<args, file_lines, exit, ending, sessionVars, patternVars,
                   lookups,
                   fetches, shortcodes, idx, listing, pulled, post,
                   downloaded, calls>>

\* loader.download_post returns: the pattern is put back, downloaded += 1
ProfileDownloadOK ==
    /\ pc = "item_downloading"
    /\ filename_pattern' = orig_pattern
    /\ downloaded' = downloaded + 1
    /\ pc' = "loop_next"
    /\ UNCHANGED <<args, file_lines, exit, ending, sessionVars, orig_pattern,
                   lookups,
                   fetches, shortcodes, idx, listing, pulled, post, attempts,
                   failed, calls, out>>

\* ProfileDownloadFail without the inner handler: the outer one ends the run
ProfileDownloadFailAborts ==
    /\ pc = "item_downloading"
    /\ failed' = failed \cup {Len(attempts)}
    /\ Exit(1, "profile_error")
    /\ out' = out \cup {"error"}
    /\ UNCHANGED <<args, file_lines, sessionVars, patternVars, lookups, fetches,
                   shortcodes, idx, listing, pulled, post, downloaded,
                   attempts, calls>>

\* ProfileDownloadFail with a handler that tries the same post again
ProfileDownloadFailRetries ==
    /\ pc = "item_downloading"
    /\ failed' = failed \cup {Len(attempts)}
    /\ pc' = "loop_check"
    /\ out' = out \cup {"item_error"}
    /\ UNCHANGED <<args, file_lines, exit, ending, sessionVars, patternVars,
                   lookups,
                   fetches, shortcodes, idx, listing, pulled, post,
                   downloaded, attempts, calls>>

\* loader.download_post raises: the inner handler prints and continues
ProfileDownloadFail ==
    /\ pc = "item_downloading"
    /\ failed' = failed \cup {Len(attempts)}
    /\ pc' = "loop_next"
    /\ out' = out \cup {"item_error"}
    /\ UNCHANGED <<args, file_lines, exit, ending, sessionVars, patternVars,
                   lookups,
                   fetches, shortcodes, idx, listing, pulled, post,
                   downloaded, attempts, calls>>

\* ------------------------------------------------------------ the process
\* Interrupt with a per-item handler that catches it (`except
\* BaseException`): the item counts as failed and the loop continues
InterruptSwallowed ==
    /\ pc /= "done"
    /\ out' = out \cup {"interrupted"}
    /\ IF pc = "item_downloading"
       THEN /\ failed' = failed \cup {Len(attempts)}
            /\ pc' = "loop_next"
            /\ UNCHANGED <<exit, ending>>
       ELSE /\ Exit(0, "interrupted")
            /\ UNCHANGED failed
    /\ UNCHANGED <<args, file_lines, sessionVars, patternVars, lookups,
                   fetches, shortcodes, idx, listing, pulled, post,
                   downloaded, attempts, calls>>

\* Interrupt with a `finally` that puts the pattern back when a download
\* is cut short
InterruptResetsPattern ==
    /\ pc /= "done"
    /\ Exit(0, "interrupted")
    /\ out' = out \cup {"interrupted"}
    /\ filename_pattern' =
          IF pc \in {"post_downloading", "item_downloading"}
          THEN orig_pattern
          ELSE filename_pattern
    /\ UNCHANGED <<args, file_lines, sessionVars, orig_pattern, workVars>>

\* KeyboardInterrupt while main runs: the handler prints and sys.exit(0)
Interrupt ==
    /\ pc /= "done"
    /\ Exit(0, "interrupted")
    /\ out' = out \cup {"interrupted"}
    /\ UNCHANGED <<args, file_lines, sessionVars, patternVars, workVars>>

Next ==
    \/ MainUsageError
    \/ MainCreate
    \/ CreateAnonymous
    \/ Prompt
    \/ LoginOK
    \/ LoginFail
    \/ UrlDownload
    \/ UrlNoShortcode
    \/ ShortcodeDownload
    \/ FileNotFound
    \/ FileOpenError
    \/ FileRead
    \/ FileNext
    \/ FileDone
    \/ PostFetchOK
    \/ PostFetchFail
    \/ PostMetaFail
    \/ PostBegin
    \/ PostDownloadOK
    \/ PostDownloadFail
    \/ ProfileLookupOK
    \/ ProfileNotExists
    \/ ProfileLookupError
    \/ ProfilePull
    \/ ProfileExhausted
    \/ ListingError
    \/ ProfileBreak
    \/ ProfileItemBegin
    \/ ProfileMetaFail
    \/ ProfileDownloadOK
    \/ ProfileDownloadFail
    \/ Interrupt

Spec == Init /\ [][Next]_vars

\* the loop of download_profile_posts keeps running: the iterator answers,
\* the body is entered or left, and loader.download_post comes back
FairSpec ==
    /\ Spec
    /\ WF_vars(ProfilePull)
    /\ WF_vars(ProfileExhausted)
    /\ WF_vars(ProfileBreak)
    /\ WF_vars(ProfileItemBegin)
    /\ WF_vars(ProfileDownloadOK)

\* the types of the state
TypeOK ==
    /\ args \in Args
    /\ pc \in {"main", "create_instance", "login", "dispatch", "file_loop",
               "post_fetch", "post_begin", "post_downloading", "loop_next",
               "loop_check", "item_downloading", "done"}
    /\ exit \in {-1, 0, 1, 2}
    /\ (exit = -1) = (pc /= "done")
    /\ session \in {"none", "anonymous", "logged_in"}
    /\ logins \in 0..1
    /\ downloaded \in 0..MaxPosts
    /\ pulled \in 0..Len(listing)
    /\ failed \subseteq 1..Len(attempts)

\* ------------------------------------------------------------ properties
\* s is the sequence of the first Len(s) elements of t
IsPrefix(s, t) == Len(s) <= Len(t) /\ s = SubSeq(t, 1, Len(s))

\* the modes that process a batch of items
BatchMode == Mode \in {"file", "profile"}

\* C1: in profile mode and in file mode a failing item does not end the
\* run: the step on which an item fails leaves the process running, a file
\* run that finishes has attempted every shortcode of the file, and a
\* profile run that finishes has attempted the posts of the listing in
\* order up to its end or up to the cap.
FailureIsolation ==
    /\ [][(BatchMode /\ failed' /= failed) => (exit' = -1 /\ pc' /= "done")]_vars
    /\ []((Mode = "file" /\ ending = "finished") => attempts = shortcodes)
    /\ []((Mode = "profile" /\ ending = "finished") =>
            /\ IsPrefix(attempts, listing)
            /\ Len(attempts) = Len(listing)
               \/ (args.count > 0 /\ downloaded >= args.count))

\* C1 witness: a finished profile run whose first item failed and whose
\* later items were all attempted
FailureIsolationWitness ==
    /\ Mode = "profile"
    /\ ending = "finished"
    /\ 1 \in failed
    /\ Len(listing) >= 3
    /\ attempts = listing

\* C2 as stated: a finished profile run with count N > 0 over a listing
\* of more than N posts has made exactly N attempts, the first N posts.
CapCountsAttempts ==
    (/\ Mode = "profile"
     /\ ending = "finished"
     /\ args.count > 0
     /\ Len(listing) > args.count)
    => attempts = SubSeq(listing, 1, args.count)

\* the attempts that did not fail
Succeeded == (1..Len(attempts)) \ failed

\* C2 amended: the cap counts the downloads that succeeded.  A finished
\* profile run with count N > 0 has attempted a prefix of the listing, has
\* counted exactly its successful attempts, at most N of them, and stopped
\* either with N successes, the last attempt being the N-th success, or at
\* the end of the listing.
CapCountsDownloads ==
    (/\ Mode = "profile"
     /\ ending = "finished"
     /\ args.count > 0)
    => /\ IsPrefix(attempts, listing)
       /\ downloaded = Cardinality(Succeeded)
       /\ downloaded <= args.count
       /\ \/ downloaded = args.count /\ Len(attempts) \in Succeeded
          \/ Len(attempts) = Len(listing)

\* C2 witness: a finished run with count 1 over a longer listing that made
\* more attempts than the count
CapCountsDownloadsWitness ==
    /\ Mode = "profile"
    /\ ending = "finished"
    /\ args.count = 1
    /\ Len(listing) >= 3
    /\ Len(attempts) = 2
    /\ downloaded = 1

\* C3 as stated: in profile mode, once count items have been counted
\* against the cap, no further element is taken from the listing.
CapCheckedBeforePull ==
    [][(Mode = "profile" /\ args.count > 0 /\ downloaded >= args.count)
         => pulled' = pulled]_vars

\* C3 amended: the cap is checked after the next element is taken from the
\* listing.  Once count items have been counted, no further item is
\* attempted or downloaded, at most one element beyond the attempted ones is
\* ever taken from the listing, and a run that the cap stops has taken
\* exactly one such element, which it does not attempt.
CapCheckedAfterPull ==
    /\ [][(Mode = "profile" /\ args.count > 0 /\ downloaded >= args.count)
            => (attempts' = attempts /\ calls' = calls)]_vars
    /\ [](Mode = "profile" =>
            /\ Len(attempts) <= pulled
            /\ pulled <= Len(attempts) + 1)
    /\ []((/\ Mode = "profile"
           /\ ending = "finished"
           /\ Len(attempts) < Len(listing))
          => pulled = Len(attempts) + 1)

\* C3 witness: a run stopped by the cap after it took the element that
\* follows the last counted one
CapCheckedAfterPullWitness ==
    /\ Mode = "profile"
    /\ ending = "finished"
    /\ args.count = 2
    /\ downloaded = 2
    /\ Len(attempts) = 2
    /\ pulled = 3
    /\ post = listing[3]

\* C4 as stated: when the shortcode file does not exist, nothing is
\* attempted and the process ends with a non-zero exit status.
FileNotFoundFatal ==
    ending = "file_not_found" => (exit /= 0 /\ attempts = <<>>)

\* C4 amended: when the shortcode file does not exist, a diagnostic is
\* printed, no post is fetched or downloaded, and the process ends with
\* exit status 0.
FileNotFoundReturns ==
    ending = "file_not_found" =>
        /\ exit = 0
        /\ "file_not_found" \in out
        /\ attempts = <<>>
        /\ fetches = 0
        /\ calls = <<>>

\* C4 witness: a file run that ended because the path does not exist
FileNotFoundWitness ==
    /\ Mode = "file"
    /\ pc = "done"
    /\ ending = "file_not_found"

\* the process ended otherwise than by an interrupt or a failed login
EndedAfterLogin ==
    /\ pc = "done"
    /\ ending \notin {"interrupted"} \cup LoginFailures

\* C5 as stated: in url mode, when no shortcode is extracted from the URL,
\* nothing is attempted and the process does not end with a non-zero status.
UrlUnresolvedNotFatal ==
    (/\ Mode = "url"
     /\ extract_shortcode_from_url(args.post_url) = NONE
     /\ EndedAfterLogin)
    => (exit = 0 /\ attempts = <<>>)

\* C5 amended: in url mode, when no shortcode is extracted from the URL, no
\* post is fetched or downloaded, and once the login is over the error is
\* printed and the process ends with exit status 1.
UrlUnresolvedExits ==
    (/\ Mode = "url"
     /\ extract_shortcode_from_url(args.post_url) = NONE)
    => /\ attempts = <<>>
       /\ fetches = 0
       /\ calls = <<>>
       /\ EndedAfterLogin => (exit = 1 /\ "url_unresolved" \in out)

\* C5 witness: a url run over a URL of another host that ended after the
\* instance was created
UrlUnresolvedWitness ==
    /\ Mode = "url"
    /\ args.post_url = UrlWrongHost
    /\ session /= "none"
    /\ EndedAfterLogin

\* the ways a run ends before it has a source of items to process: bad
\* usage, a failed login, a profile or a file that cannot be opened, a URL
\* without a shortcode, a listing that fails to deliver
SourceFailures ==
    {"usage", "url_unresolved", "profile_not_found", "profile_error",
     "file_error", "listing_error"} \cup LoginFailures

\* C6: failures of items never change the exit status.  In every mode the
\* step on which an item fails leaves the process running or ends it with
\* status 0, and a process that ended with another status ended for a
\* failure of the login or of the source, not of an item.
ItemFailuresExitZero ==
    /\ [][failed' /= failed => exit' \in {-1, 0}]_vars
    /\ []((pc = "done" /\ exit /= 0) => ending \in SourceFailures)
    /\ []((pc = "done" /\ ending = "finished") => exit = 0)

\* C6 witness: a finished file run all of whose items failed
ItemFailuresExitZeroWitness ==
    /\ Mode = "file"
    /\ ending = "finished"
    /\ exit = 0
    /\ Len(attempts) >= 2
    /\ failed = 1..Len(attempts)

\* some work was done with the session: a profile looked up, a post
\* fetched, an item attempted, a download called, a file read
WorkStarted ==
    \/ lookups > 0
    \/ fetches > 0
    \/ attempts /= <<>>
    \/ calls /= <<>>
    \/ pulled > 0
    \/ pc \in {"file_loop", "post_fetch", "post_begin", "post_downloading",
               "loop_next", "loop_check", "item_downloading"}

\* C7: the login precedes all work and its failure is fatal.  Without a
\* username L.login is never called; with one, work starts only after
\* L.login was called and returned; and after bad credentials or a
\* connection error the process has ended with status 1 without any work.
LoginFirst ==
    /\ ~Truthy(args.username) => logins = 0
    /\ (Truthy(args.username) /\ WorkStarted) =>
          (logins = 1 /\ session = "logged_in")
    /\ ending \in {"bad_credentials", "connection"} =>
          (pc = "done" /\ exit = 1 /\ logins = 1 /\ ~WorkStarted)

\* C7 witness: a run that ended on bad credentials
LoginFirstWitness ==
    /\ Truthy(args.username)
    /\ ending = "bad_credentials"
    /\ "prompt" \in out

\* C8: in profile mode, when the profile does not exist or cannot be looked
\* up, the process ends at once with status 1: no item is attempted or
\* recorded as failed and nothing is taken from a listing.
ProfileNotFoundFatal ==
    ending \in {"profile_not_found", "profile_error"} =>
        /\ Mode = "profile"
        /\ pc = "done"
        /\ exit = 1
        /\ lookups = 1
        /\ attempts = <<>>
        /\ failed = {}
        /\ calls = <<>>
        /\ pulled = 0

\* C8 witness: a profile run that ended on ProfileNotExistsException
ProfileNotFoundWitness ==
    /\ ending = "profile_not_found"
    /\ "profile_not_found" \in out

\* C9: when none of target, shortcode, URL and shortcode file is given, no
\* instance is created, no password is asked for, L.login is not called,
\* nothing is attempted, and the process ends with the usage error.
UsageErrorFirst ==
    (/\ ~Truthy(args.target)
     /\ ~Truthy(args.shortcode)
     /\ ~Truthy(args.post_url)
     /\ ~Truthy(args.shortcodes_file))
    => /\ session = "none"
       /\ logins = 0
       /\ "prompt" \notin out
       /\ ~WorkStarted
       /\ pc \in {"main", "done"}
       /\ (pc = "done" /\ ending /= "interrupted") =>
             (ending = "usage" /\ exit = 2 /\ "usage" \in out)

\* C9 witness: a run with a username and nothing to download that ended
\* with the usage error
UsageErrorWitness ==
    /\ Truthy(args.username)
    /\ args.target = NONE
    /\ args.shortcode = NONE
    /\ args.post_url = NONE
    /\ args.shortcodes_file = NONE
    /\ ending = "usage"

\* how many of target, shortcode, URL and shortcode file are given
Supplied ==
    Cardinality({ f \in {"target", "shortcode", "post_url", "shortcodes_file"} :
                    Truthy(args[f]) })

\* C10 as stated: a run that created the instance or attempted a download
\* was given exactly one of target, shortcode, URL and shortcode file.
ExactlyOneMode ==
    (session /= "none" \/ attempts /= <<>>) => Supplied = 1

\* the elements of a sequence
Range(q) == { q[i] : i \in 1..Len(q) }

\* C10 amended: a run that created the instance or attempted a download was
\* given at least one of the four, and when several are given exactly one
\* is processed: the shortcode file before the URL, the URL before the
\* shortcode, the shortcode before the target profile.
OneModeProcessed ==
    /\ (session /= "none" \/ attempts /= <<>>) => Supplied >= 1
    /\ Truthy(args.shortcodes_file) =>
          (lookups = 0 /\ Range(attempts) \subseteq Range(shortcodes))
    /\ (~Truthy(args.shortcodes_file) /\ Truthy(args.post_url)) =>
          /\ lookups = 0
          /\ Range(attempts) \subseteq {extract_shortcode_from_url(args.post_url)}
    /\ (/\ ~Truthy(args.shortcodes_file)
        /\ ~Truthy(args.post_url)
        /\ Truthy(args.shortcode)) =>
          (lookups = 0 /\ Range(attempts) \subseteq {args.shortcode})
    /\ lookups > 0 => (Truthy(args.target) /\ Supplied = 1)

\* C10 witness: a run given a target, a shortcode, a URL and a file that
\* downloaded a shortcode of the file
OneModeProcessedWitness ==
    /\ Supplied = 4
    /\ attempts /= <<>>
    /\ calls /= <<>>
    /\ ending = "finished"

\* a call of loader.download_post is in progress
Downloading == pc \in {"post_downloading", "item_downloading"}

AttemptsFollowListing ==
    Mode = "profile" =>
        /\ IsPrefix(attempts, listing)
        /\ Len(attempts) <= pulled
        /\ \A i, j \in 1..Len(attempts) : attempts[i] = attempts[j] => i = j

\* C12 witness: a profile run that went on to the third post after the
\* first failed and the second was downloaded
AttemptsFollowListingWitness ==
    /\ Mode = "profile"
    /\ pc = "item_downloading"
    /\ Len(attempts) = 3
    /\ failed = {1}
    /\ downloaded = 1

\* the positions of the lines of the file that are not blank
NonBlankLines ==
    { i \in 1..Len(file_lines) :
        \E k \in 1..Len(file_lines[i]) : file_lines[i][k] \notin Whitespace }

\* the k-th of these positions
NthNonBlank(k) ==
    CHOOSE i \in NonBlankLines :
        Cardinality({ j \in NonBlankLines : j <= i }) = k

\* the non-blank lines of the file, trimmed, in file order
TrimmedNonBlank ==
    [k \in 1..Cardinality(NonBlankLines) |-> Strip(file_lines[NthNonBlank(k)])]

\* C13: in file mode the items attempted are at every point the first of
\* the trimmed non-blank lines of the file, in file order, and a finished
\* run has attempted exactly these: one attempt per non-blank line, whatever
\* the line holds, none for a blank line.
FileAttemptsAreLines ==
    Mode = "file" =>
        /\ IsPrefix(attempts, TrimmedNonBlank)
        /\ ending = "finished" =>
              /\ attempts = TrimmedNonBlank
              /\ Len(attempts) = Cardinality(NonBlankLines)

\* C13 witness: a finished run over a file of a line that is no shortcode
\* and a line to trim, both attempted
FileAttemptsWitness ==
    /\ Mode = "file"
    /\ ending = "finished"
    /\ file_lines = << <<"c"," ","d">>, <<" ","b","\n">> >>
    /\ attempts = << <<"c"," ","d">>, <<"b">> >>

\* a finished run over a file with a blank line, which is not attempted
FileBlankLineWitness ==
    /\ Mode = "file"
    /\ ending = "finished"
    /\ file_lines = << <<" ">>, <<"a">> >>
    /\ attempts = << <<"a">> >>

\* C14: in profile mode with count 0 the loop stops only when the listing
\* is exhausted.  While it runs the cap never stops it, a run that finishes
\* has taken every post from the listing and attempted each exactly once,
\* failed or not, and the run does come to an end.
UnboundedRunExhaustsListing ==
    /\ []((Mode = "profile" /\ args.count = 0 /\ ending = "finished") =>
            /\ attempts = listing
            /\ pulled = Len(listing)
            /\ downloaded + Cardinality(failed) = Len(listing))
    /\ [][(Mode = "profile" /\ args.count = 0 /\ pc = "loop_check")
            => pc' /= "done" \/ ending' = "interrupted"]_vars
    /\ (Mode = "profile" /\ args.count = 0 /\ pc = "loop_next") ~> (pc = "done")

\* C14 witness: a finished run with count 0 over three posts, one of which
\* failed
UnboundedRunWitness ==
    /\ Mode = "profile"
    /\ args.count = 0
    /\ ending = "finished"
    /\ Len(listing) = 3
    /\ failed = {2}
    /\ downloaded = 2

\* C15: the user's interrupt can arrive at any point of the run, and the
\* step on which it is printed ends the process with status 0: no handler
\* of an item takes it for a failure, and the downloads counted, the items
\* attempted and the calls made stay as they are.
InterruptExitsZero ==
    /\ [](pc /= "done" => ENABLED Interrupt)
    /\ [](ending = "interrupted" => (pc = "done" /\ exit = 0))
    /\ [][("interrupted" \in out' /\ "interrupted" \notin out) =>
            /\ pc' = "done"
            /\ exit' = 0
            /\ ending' = "interrupted"
            /\ failed' = failed
            /\ downloaded' = downloaded
            /\ attempts' = attempts
            /\ calls' = calls]_vars

\* C15 witness: a profile run interrupted during its second download, the
\* first one counted
InterruptExitsZeroWitness ==
    /\ Mode = "profile"
    /\ ending = "interrupted"
    /\ exit = 0
    /\ Len(calls) = 2
    /\ downloaded = 1
    /\ failed = {}

\* C16 as stated: an interrupt does not end the run while a download is
\* in progress.
InterruptAtItemBoundary ==
    [][Downloading => ending' /= "interrupted"]_vars

\* C16 amended: an interrupt is honored at once, also while a download is
\* in progress.  The item is cut short: the process ends with status 0,
\* the item is neither counted as downloaded nor recorded as failed, no
\* success is printed for it, and the pattern saved in orig_pattern is not
\* put back: the pattern stays the item's shortcode.
InterruptCutsItemShort ==
    [][(Downloading /\ ending' = "interrupted") =>
         /\ pc' = "done"
         /\ exit' = 0
         /\ downloaded' = downloaded
         /\ failed' = failed
         /\ out' = out \cup {"interrupted"}
         /\ filename_pattern' = post
         /\ orig_pattern' = orig_pattern]_vars

\* C16 witness: a shortcode run interrupted during its download: the
\* pattern is still the shortcode and no outcome was printed for the item
InterruptCutsItemShortWitness ==
    /\ Mode = "shortcode"
    /\ ending = "interrupted"
    /\ Len(calls) = 1
    /\ filename_pattern = args.shortcode
    /\ failed = {}
    /\ "item_success" \notin out

\* the URL argument is made of identifier characters only
BareIdentifier ==
    /\ Truthy(args.post_url)
    /\ \A k \in 1..Len(args.post_url) : args.post_url[k] \in IdentChars

\* C17 as stated: an input of identifier characters only is returned
\* unchanged by extract_shortcode_from_url.
BareIdentifierUnchanged ==
    (BareIdentifier /\ Mode = "url" /\ EndedAfterLogin) =>
        /\ extract_shortcode_from_url(args.post_url) = args.post_url
        /\ ending /= "url_unresolved"

\* C17 amended: for an input of identifier characters only
\* extract_shortcode_from_url returns None, so that a url run over it
\* attempts nothing and, once the login is over, ends on the URL error.
BareIdentifierNotFound ==
    BareIdentifier =>
        /\ extract_shortcode_from_url(args.post_url) = NONE
        /\ Mode = "url" =>
              /\ attempts = <<>>
              /\ pc \notin {"post_fetch", "post_begin", "post_downloading"}
              /\ EndedAfterLogin => ending = "url_unresolved"

\* C17 witness: a url run over the bare shortcode "Z7" that ended on the
\* URL error
BareIdentifierWitness ==
    /\ Mode = "url"
    /\ args.post_url = <<"Z", "7">>
    /\ ending = "url_unresolved"
    /\ "url_unresolved" \in out

\* the URL argument, trimmed, without its scheme
UrlSansScheme ==
    LET s == Strip(args.post_url) IN
    IF LitAt(s, 1, HTTPS) THEN SubSeq(s, Len(HTTPS) + 1, Len(s))
    ELSE IF LitAt(s, 1, HTTP) THEN SubSeq(s, Len(HTTP) + 1, Len(s))
    ELSE s

\* the URL's host is instagram.com or www.instagram.com and its path
\* starts with p/, reel/ or tv/
InstagramPostUrl ==
    \E h \in {HOST, WWW \o HOST} : \E seg \in {SegP, SegReel, SegTv} :
        LitAt(UrlSansScheme, 1, h \o seg)

\* C18: for a URL whose host is not instagram.com or www.instagram.com, or
\* whose path lacks the p, reel or tv segment, extract_shortcode_from_url
\* returns None, and a url run over it ends on the URL error.
ForeignUrlNotFound ==
    (Mode = "url" /\ ~InstagramPostUrl /\ EndedAfterLogin) =>
        /\ extract_shortcode_from_url(args.post_url) = NONE
        /\ attempts = <<>>
        /\ ending = "url_unresolved"

\* C19: when no download is in progress, and the run was not interrupted,
\* loader.filename_pattern is what it was before the first download.
PatternRestored ==
    (~Downloading /\ ending /= "interrupted") => filename_pattern = DefaultPattern

\* C20: an exception of the listing iterator is not isolated.  The step on
\* which it is raised ends the process with status 1 without attempting
\* another item and without printing the count, and leaves the downloads
\* counted, the items attempted and the calls made as they are.
ListingErrorFatal ==
    /\ [](ending = "listing_error" =>
            /\ Mode = "profile"
            /\ pc = "done"
            /\ exit = 1
            /\ "profile_summary" \notin out
            /\ "error" \in out)
    /\ [][ending' = "listing_error" =>
            /\ attempts' = attempts
            /\ calls' = calls
            /\ downloaded' = downloaded
            /\ failed' = failed
            /\ pulled' = pulled
            /\ filename_pattern' = filename_pattern]_vars

\* C20 witness: a profile run whose listing failed after one download, with
\* posts left to deliver
ListingErrorWitness ==
    /\ ending = "listing_error"
    /\ downloaded = 1
    /\ Len(attempts) = 1
    /\ pulled < Len(listing)

====
